---- MODULE Spec2Model ----
(***************************************************************************)
(* Model of web/server.py: the HTTP gateway that stores an uploaded file,  *)
(* runs the external compression tool on it, resolves the file the tool    *)
(* produced and streams it back.                                           *)
(*                                                                         *)
(* Strings (file names, paths, stderr text) are sequences of one-character *)
(* strings, so that basename, replace, startswith, endswith and strip are  *)
(* computed as Python computes them.  File contents are opaque tokens.     *)
(***************************************************************************)
EXTENDS Integers, Sequences, FiniteSets, TLC

VARIABLES
    CLI,        \* TRUE iff detect_cli() found an executable at startup
    fs,         \* the file system: path -> [kind, data, mtime]
    clock,      \* the wall clock that stamps modification times
    nreq,       \* number of requests accepted so far
    pc,         \* position of the request handler
    req,        \* the request being handled
    in_path,    \* in_path of do_POST / _run_cli
    out_path,   \* out_path of _run_cli / do_POST
    proc,       \* p, the completed child process of _run_cli
    resp,       \* what the handler has sent on the connection
    crashed,    \* the handler ended with an uncaught exception
    opened,     \* paths opened for reading or writing by the current request
    invoked,    \* argument lists of the child processes run by the current request
    resolved,   \* the output-resolution code (lines 89-110) ran in the current request
    contract,   \* the tool run of the current request honoured the child-process contract
    prev        \* summary of the previous request

vars == <<CLI, fs, clock, nreq, pc, req, in_path, out_path, proc, resp,
          crashed, opened, invoked, resolved, contract, prev>>

(***************************************************************************)
(* Bounds of the model.                                                    *)
(***************************************************************************)
MaxRequests == 1    \* requests handled in one run of the server (Spec, SpecUpload)
MaxSequence == 2    \* requests handled in one run of the server (SpecSeq)
MaxNameLen == 2     \* length of the client-supplied file names (SpecUpload)
MaxLines == 2       \* lines of the tool's standard output
MaxErrLen == 2      \* characters of the tool's standard error

SeqsUpTo(S, n) == UNION {[1..k -> S] : k \in 0..n}

(***************************************************************************)
(* String functions of Python used by the server.                          *)
(***************************************************************************)
Whitespace == {" ", "\n"}

\* s.startswith(p)
StartsWith(s, p) == Len(p) <= Len(s) /\ SubSeq(s, 1, Len(p)) = p

\* s.endswith(p)
EndsWith(s, p) == Len(p) <= Len(s) /\ SubSeq(s, Len(s) - Len(p) + 1, Len(s)) = p

\* index of the last "/" of s, 0 when there is none
LastSlash(s) ==
    LET idx == {i \in 1..Len(s) : s[i] = "/"}
    IN  IF idx = {} THEN 0 ELSE CHOOSE i \in idx : \A j \in idx : j <= i

\* os.path.basename(s): what follows the last "/"
Basename(s) == SubSeq(s, LastSlash(s) + 1, Len(s))

\* os.path.dirname(s): what precedes the last "/"
Dirname(s) == SubSeq(s, 1, LastSlash(s) - 1)

\* s.replace('..', ''): non-overlapping occurrences, scanned left to right
RECURSIVE RemoveDotDot(_)
RemoveDotDot(s) ==
    IF Len(s) < 2 THEN s
    ELSE IF s[1] = "." /\ s[2] = "." THEN RemoveDotDot(SubSeq(s, 3, Len(s)))
    ELSE <<s[1]>> \o RemoveDotDot(Tail(s))

\* s.replace('/', '_')
ReplaceSlash(s) == [i \in 1..Len(s) |-> IF s[i] = "/" THEN "_" ELSE s[i]]

\* s.strip(): leading and trailing whitespace removed
RECURSIVE LStrip(_)
LStrip(s) == IF s # <<>> /\ Head(s) \in Whitespace THEN LStrip(Tail(s)) ELSE s

RECURSIVE RStrip(_)
RStrip(s) ==
    IF s # <<>> /\ s[Len(s)] \in Whitespace THEN RStrip(SubSeq(s, 1, Len(s) - 1)) ELSE s

\* mutant of Strip: the trailing whitespace is kept
StripLeft(s) == LStrip(s)

Strip(s) == RStrip(LStrip(s))

\* os.path.join(d, n) for a name n that does not start with "/"
Join(d, n) == d \o <<"/">> \o n

(***************************************************************************)
(* Module-level constants of server.py.                                    *)
(***************************************************************************)
WEB_DIR == <<"/", "w">>
UPLOAD_DIR == Join(WEB_DIR, <<"u", "p", "l", "o", "a", "d", "s">>)
OUTPUT_DIR == Join(WEB_DIR, <<"o", "u", "t", "p", "u", "t">>)
Suffix == <<".", "c", "o", "m", "p">>
None == <<"None">>

\* mutant of SafeName: the '..' sequences are kept
SafeNameKeepsDots(base) == ReplaceSlash(base)

\* base.replace('..','').replace('/','_') applied to a base name
SafeName(base) == ReplaceSlash(RemoveDotDot(base))

\* the sanitized name of a client-supplied file name
Sanitize(filename) == SafeName(Basename(filename))

(***************************************************************************)
(* The file system.  fs maps a path to [kind, data, mtime]; the two        *)
(* working directories always exist (ensure_dirs) and are not entries.     *)
(***************************************************************************)
\* paths that name one of the working directories themselves
WorkDirs ==
    {UPLOAD_DIR, OUTPUT_DIR, Join(UPLOAD_DIR, <<>>), Join(OUTPUT_DIR, <<>>),
     Join(UPLOAD_DIR, <<".">>), Join(OUTPUT_DIR, <<".">>)}

\* os.path.exists(p)
Exists(f, p) == p \in DOMAIN f \/ p \in WorkDirs

\* os.path.isfile(p)
IsFile(f, p) == p \in DOMAIN f /\ f[p].kind = "file"

\* [os.path.join(d, n) for n in os.listdir(d)]
ListDir(f, d) == {p \in DOMAIN f : Dirname(p) = d}

\* the file system after p was written with data at time t
WriteFile(f, p, data, t) == (p :> [kind |-> "file", data |-> data, mtime |-> t]) @@ f

\* the file system after mkdir p at time t
MakeDir(f, p, t) == (p :> [kind |-> "dir", data |-> <<>>, mtime |-> t]) @@ f

\* shutil.copy2(src, dst): the bytes and the modification time of src
CopyFile(f, src, dst) == (dst :> f[src]) @@ f

(***************************************************************************)
(* File contents.  A compressed content is the original behind a "z".      *)
(***************************************************************************)
Comp(d) == <<"z">> \o d
IsCompressed(d) == d # <<>> /\ Head(d) = "z"
Decomp(d) == Tail(d)

(***************************************************************************)
(* Requests a client can send.                                             *)
(***************************************************************************)
Chars == {"a", ".", "/"}

\* every file name up to MaxNameLen characters, alone and with the suffix
AllNames ==
    LET base == SeqsUpTo(Chars, MaxNameLen)
    IN  base \cup {n \o Suffix : n \in base}

\* the file names of the jobs run against an arbitrary tool
JobNames == {<<"a">>, <<"a">> \o Suffix, Suffix, <<".", ".">>}

\* the file names of the request sequences: a plain name, a name that ends
\* in a dot, and the names the server returns for their compressed files
SeqNames == {<<"a">>, <<"a", ".">>, <<"a">> \o Suffix, <<"a", ".">> \o Suffix}

\* the file names of the jobs that share the outbound area
ShareNames == {<<"a">>, <<"a">> \o Suffix}

\* the file names of the jobs whose output is resolved tier by tier: a plain
\* name, a name with the suffix, and the name of an entry left in the
\* outbound area
TierNames == {<<"a">>, <<"a">> \o Suffix, <<"s">>}
Bodies == {<<"A">>, Comp(<<"A">>)}
Routes == {"/compress", "/decompress", "/other"}
Headers == {"absent", "text/plain", "multipart/form-data",
            "multipart/form-data; boundary=x"}

NoForm == [hasfile |-> FALSE, filename |-> <<>>, body |-> <<>>]
Forms(names) ==
    {NoForm} \cup {[hasfile |-> TRUE, filename |-> n, body |-> b] :
                      n \in names, b \in Bodies}
Requests(names) ==
    {[route |-> r, header |-> h, form |-> fm] :
        r \in Routes, h \in Headers, fm \in Forms(names)}
NoRequest == [route |-> "", header |-> "absent", form |-> NoForm]

\* only a request that reaches cgi.FieldStorage has its form read
Relevant(r) ==
    \/ r.route # "/other" /\ r.header = "multipart/form-data; boundary=x"
    \/ r.form = NoForm

\* cgi.parse_header: the media type, "raise" for a missing header
ParseHeader(h) ==
    CASE h = "absent" -> [ctype |-> "raise", boundary |-> FALSE]
      [] h = "text/plain" -> [ctype |-> "text/plain", boundary |-> FALSE]
      [] h = "multipart/form-data" -> [ctype |-> "multipart/form-data", boundary |-> FALSE]
      [] OTHER -> [ctype |-> "multipart/form-data", boundary |-> TRUE]

(***************************************************************************)
(* Responses.                                                              *)
(***************************************************************************)
NoResponse == [status |-> 0, text |-> <<>>, filename |-> <<>>, body |-> <<>>]

\* _fail(code, msg)
Fail(code, msg) == [status |-> code, text |-> msg, filename |-> <<>>, body |-> <<>>]

NotFoundMsg == <<"Not found">>
InvalidContentTypeMsg == <<"Invalid content type">>
MissingFileMsg == <<"Missing file field">>
EmptyFilenameMsg == <<"Empty filename">>
CliNotFoundMsg == <<"CLI not found on server">>
CompressionFailedMsg == <<"Compression failed">>

(***************************************************************************)
(* The external tool, invoked as <tool> -c|-d <inputPath> -o <outputDir>.  *)
(* It is a black box: a run is any exit code, any standard error, any      *)
(* lines on standard output and one of a few effects on the output         *)
(* directory.  A line is a sequence of characters in which the literal     *)
(* 'Output:' is the single token "Output:".                                *)
(***************************************************************************)
Marker == <<"Output:">>
SecretFile == <<"/", "e", "t", "c", "/", "p">>
StaleName == <<"s">>
TiedName == <<"t">>

\* the file the naming convention of the tool gives for an input, None when
\* the convention does not apply (decompress of a name without the suffix)
ConventionPath(flag, inp) ==
    LET base == Basename(inp)
    IN  IF flag = "-c" THEN Join(OUTPUT_DIR, base \o Suffix)
        ELSE IF EndsWith(base, Suffix)
             THEN Join(OUTPUT_DIR, SubSeq(base, 1, Len(base) - Len(Suffix)))
             ELSE None

\* the content the tool produces from the content d of its input
Produced(flag, d) ==
    IF flag = "-c" THEN Comp(d) ELSE IF IsCompressed(d) THEN Decomp(d) ELSE d

\* paths a run of the tool may name after 'Output:'
DeclaredPaths(flag, inp) ==
    {ConventionPath(flag, inp), Join(OUTPUT_DIR, StaleName), SecretFile} \ {None}

OutputLine(p) == Marker \o <<" ">> \o p
Lines(flag, inp) ==
    {<<"o", "k">>, Marker \o <<" ">>} \cup {OutputLine(p) : p \in DeclaredPaths(flag, inp)}

\* the file systems a successful run may leave: nothing written, the
\* convention's file written, or a directory made in its place
Effects(flag, inp, f, now) ==
    LET out == ConventionPath(flag, inp)
    IN  {f} \cup
        (IF out = None \/ ~IsFile(f, inp) THEN {}
         ELSE {WriteFile(f, out, Produced(flag, f[inp].data), now)} \cup
              (IF Exists(f, out) THEN {} ELSE {MakeDir(f, out, now)}))

ErrChars == {" ", "b"}

ToolRuns(flag, inp, f, now) ==
    {[rc |-> 1, stdout |-> <<>>, stderr |-> e, fs |-> f] :
        e \in SeqsUpTo(ErrChars, MaxErrLen)}
    \cup
    {[rc |-> 0, stdout |-> o, stderr |-> <<>>, fs |-> g] :
        o \in SeqsUpTo(Lines(flag, inp), MaxLines), g \in Effects(flag, inp, f, now)}

\* a tool that keeps to the contract where it applies, with or without the
\* 'Output:' line, and refuses every other input
StrictRuns(flag, inp, f, now) ==
    LET out == ConventionPath(flag, inp)
        covered == /\ IsFile(f, inp)
                   /\ out # None
                   /\ (flag = "-d" => IsCompressed(f[inp].data))
    IN  IF covered
        THEN {[rc |-> 0, stdout |-> o, stderr |-> <<>>,
               fs |-> WriteFile(f, out, Produced(flag, f[inp].data), now)] :
                 o \in {<<>>, <<OutputLine(out)>>}}
        ELSE {[rc |-> 1, stdout |-> <<>>, stderr |-> <<"b">>, fs |-> f]}

\* a tool that keeps to the contract where it applies, but may also exit 0
\* having written and printed nothing
LooseRuns(flag, inp, f, now) ==
    StrictRuns(flag, inp, f, now) \cup
    {[rc |-> 0, stdout |-> <<>>, stderr |-> <<>>, fs |-> f]}

\* a file the tool names by a rule of its own
StrayPath == Join(OUTPUT_DIR, <<"x">>)

\* a tool that prints at most one line and may write, in place of the
\* convention's file, a file named by a rule of its own
TierRuns(flag, inp, f, now) ==
    LET data == IF IsFile(f, inp) THEN f[inp].data ELSE <<>>
        stray == WriteFile(f, StrayPath, Produced(flag, data), now)
    IN  {[rc |-> 1, stdout |-> <<>>, stderr |-> <<"b">>, fs |-> f]}
        \cup
        {[rc |-> 0, stdout |-> o, stderr |-> <<>>, fs |-> g] :
            o \in {<<>>} \cup {<<l>> : l \in Lines(flag, inp)},
            g \in Effects(flag, inp, f, now) \cup {stray}}

NoProc == [rc |-> -1, stdout |-> <<>>, stderr |-> <<>>]

\* lines 90-94: the stripped remainder of the first line that starts with
\* 'Output:', None when there is no such line
RECURSIVE ParseOutput(_)
ParseOutput(lines) ==
    IF lines = <<>> THEN None
    ELSE IF StartsWith(Head(lines), Marker)
         THEN Strip(SubSeq(Head(lines), Len(Marker) + 1, Len(Head(lines))))
         ELSE ParseOutput(Tail(lines))

\* the child-process contract: the convention's file is written with the
\* produced content, exit code 0, and an 'Output:' line, if any, names it.
\* The contract says nothing about a decompress input that is not a
\* compressed file named <name>.comp.
HonoursContract(flag, inp, f, now, t) ==
    LET out == ConventionPath(flag, inp)
        covered == /\ IsFile(f, inp)
                   /\ out # None
                   /\ (flag = "-d" => IsCompressed(f[inp].data))
    IN  covered =>
          /\ t.rc = 0
          /\ t.fs = WriteFile(f, out, Produced(flag, f[inp].data), now)
          /\ ParseOutput(t.stdout) \in {None, out}

(***************************************************************************)
(* The output resolution of _run_cli, lines 89-110.                        *)
(***************************************************************************)
\* "not out_path": None and the empty string are false
Falsy(x) == x = None \/ x = <<>>

Mode(route) == IF route = "/compress" THEN "compress" ELSE "decompress"
Flag(mode) == IF mode = "compress" THEN "-c" ELSE "-d"

\* mutant of Candidate: the guess from the input's name is preferred to the
\* declared path
CandidateGuessFirst(mode, inp, declared) ==
    LET base == Basename(inp)
    IN  IF mode = "compress" THEN Join(OUTPUT_DIR, base \o Suffix)
        ELSE IF EndsWith(base, Suffix)
             THEN Join(OUTPUT_DIR, SubSeq(base, 1, Len(base) - 5))
             ELSE declared

\* mutant of Candidate: the compress guess lacks the suffix
CandidateNoSuffix(mode, inp, declared) ==
    IF ~Falsy(declared) THEN declared
    ELSE LET base == Basename(inp)
         IN  IF mode = "compress" THEN Join(OUTPUT_DIR, base)
             ELSE IF EndsWith(base, Suffix)
                  THEN Join(OUTPUT_DIR, SubSeq(base, 1, Len(base) - 5))
                  ELSE declared

\* lines 95-103: the declared path, or else the guess from the input's name
Candidate(mode, inp, declared) ==
    IF ~Falsy(declared) THEN declared
    ELSE LET base == Basename(inp)
         IN  IF mode = "compress" THEN Join(OUTPUT_DIR, base \o Suffix)
             ELSE IF EndsWith(base, Suffix)
                  THEN Join(OUTPUT_DIR, SubSeq(base, 1, Len(base) - 5))
                  ELSE declared

\* lines 106-107: the regular files of OUTPUT_DIR
RegularFiles(f) == {p \in ListDir(f, OUTPUT_DIR) : IsFile(f, p)}

\* mutant of Newest: min in place of max
Oldest(f) == {p \in RegularFiles(f) : \A q \in RegularFiles(f) : f[p].mtime <= f[q].mtime}

\* line 109: max(candidates, key=getmtime); the listing order decides a tie
Newest(f) == {p \in RegularFiles(f) : \A q \in RegularFiles(f) : f[q].mtime <= f[p].mtime}

\* mutant of Resolutions: the last-resort scan is left out
ResolutionsNoScan(f, cand) == {cand}

\* lines 104-110: the paths _run_cli can return for a candidate
Resolutions(f, cand) ==
    IF Falsy(cand) \/ ~Exists(f, cand)
    THEN IF RegularFiles(f) # {} THEN Newest(f) ELSE {cand}
    ELSE {cand}

(***************************************************************************)
(* The server.                                                             *)
(***************************************************************************)
NoPrev == [route |-> "", filename |-> <<>>, body |-> <<>>, safe |-> <<>>, status |-> 0,
           rfilename |-> <<>>, rbody |-> <<>>, contract |-> FALSE]

\* what earlier runs of the server left in the output directory
Leftovers ==
    LET s == Join(OUTPUT_DIR, StaleName)
        t == Join(OUTPUT_DIR, TiedName)
        old(d) == [kind |-> "file", data |-> d, mtime |-> 0]
        c == Join(OUTPUT_DIR, <<"a">> \o Suffix)
    IN  {<<>>,
         s :> old(<<"B">>),
         c :> old(<<"B">>),
         s :> [kind |-> "dir", data |-> <<>>, mtime |-> 0],
         (s :> old(<<"B">>)) @@ (t :> old(<<"C">>))}

Init ==
    /\ CLI \in BOOLEAN
    /\ \E left \in Leftovers :
          fs = (SecretFile :> [kind |-> "file", data |-> <<"secret">>, mtime |-> 0]) @@ left
    /\ clock = 1
    /\ nreq = 0
    /\ pc = "idle"
    /\ req = NoRequest
    /\ in_path = None
    /\ out_path = None
    /\ proc = NoProc
    /\ resp = NoResponse
    /\ crashed = FALSE
    /\ opened = {}
    /\ invoked = <<>>
    /\ resolved = FALSE
    /\ contract = FALSE
    /\ prev = NoPrev

\* mutant of Finish: the handler goes on after sending r
FinishAndGoOn(r) ==
    /\ resp' = r
    /\ pc' = "resolve"

\* the handler returns after sending r
Finish(r) ==
    /\ resp' = r
    /\ pc' = "done"

\* the handler ends with an uncaught exception: nothing more is sent
Raise ==
    /\ crashed' = TRUE
    /\ pc' = "done"

\* mutant of Idle: a request is taken up while another is being handled
IdleAlways == TRUE

\* HTTPServer.serve_forever: the next request is taken up when the handler
\* of the previous one has returned (or ended with an exception)
Idle == pc \in {"idle", "done"}

\* a client sends a request; the server handles one request at a time
Arrive(names, max) ==
    /\ Idle
    /\ nreq < max
    /\ \E r \in Requests(names) :
          /\ Relevant(r)
          /\ req' = r
    /\ nreq' = nreq + 1
    /\ pc' = "post"
    /\ prev' = [route |-> req.route, filename |-> req.form.filename,
                body |-> req.form.body, safe |-> Basename(in_path),
                status |-> resp.status, rfilename |-> resp.filename,
                rbody |-> resp.body, contract |-> contract]
    /\ in_path' = None
    /\ out_path' = None
    /\ proc' = NoProc
    /\ resp' = NoResponse
    /\ crashed' = FALSE
    /\ opened' = {}
    /\ invoked' = <<>>
    /\ resolved' = FALSE
    /\ contract' = FALSE
    /\ UNCHANGED <<CLI, fs, clock>>

\* do_POST, lines 113-116
Route ==
    /\ pc = "post"
    /\ IF req.route \notin {"/compress", "/decompress"}
       THEN Finish(Fail(404, NotFoundMsg))
       ELSE pc' = "upload" /\ UNCHANGED resp
    /\ UNCHANGED <<CLI, fs, clock, nreq, req, in_path, out_path, proc, crashed,
                   opened, invoked, resolved, contract, prev>>

\* _handle_upload, lines 55-72, and do_POST, lines 117-119
HandleUpload ==
    /\ pc = "upload"
    /\ LET h == ParseHeader(req.header)
           safe == Sanitize(req.form.filename)
           path == Join(UPLOAD_DIR, safe)
       IN  CASE h.ctype = "raise" ->
                  /\ Raise
                  /\ UNCHANGED <<fs, clock, in_path, resp, opened>>
             [] h.ctype \notin {"raise", "multipart/form-data"} ->
                  /\ Finish(Fail(400, InvalidContentTypeMsg))
                  /\ UNCHANGED <<fs, clock, in_path, crashed, opened>>
             [] h.ctype = "multipart/form-data" /\ ~h.boundary ->
                  /\ Raise
                  /\ UNCHANGED <<fs, clock, in_path, resp, opened>>
             [] h.ctype = "multipart/form-data" /\ h.boundary /\ ~req.form.hasfile ->
                  /\ Finish(Fail(400, MissingFileMsg))
                  /\ UNCHANGED <<fs, clock, in_path, crashed, opened>>
             [] h.ctype = "multipart/form-data" /\ h.boundary /\ req.form.hasfile
                  /\ req.form.filename = <<>> ->
                  /\ Finish(Fail(400, EmptyFilenameMsg))
                  /\ UNCHANGED <<fs, clock, in_path, crashed, opened>>
             [] OTHER ->
                  /\ opened' = opened \cup {path}
                  /\ IF path \in WorkDirs
                     THEN /\ Raise
                          /\ UNCHANGED <<fs, clock, in_path, resp>>
                     ELSE /\ fs' = WriteFile(fs, path, req.form.body, clock)
                          /\ clock' = clock + 1
                          /\ in_path' = path
                          /\ pc' = "run"
                          /\ UNCHANGED <<resp, crashed>>
    /\ UNCHANGED <<CLI, nreq, req, out_path, proc, invoked, resolved, contract, prev>>

\* mutant of CliMissing: the check of line 75 is left out
CliMissingIgnored == FALSE

\* "if not CLI", line 75
CliMissing == ~CLI

\* shutil.copy2(in_path, target), line 83: into target, or into the
\* directory target when it is one
CopyTarget(f, src, target) ==
    IF target \in DOMAIN f /\ f[target].kind = "dir"
    THEN Join(target, Basename(src))
    ELSE target

\* The runs the child process may make, by the kind of tool installed: one
\* that keeps to its contract ("strict"), one that may also exit 0 having
\* done nothing ("loose"), one that may leave a file of its own choosing
\* ("tier"), or any run at all ("any")
Runs(tool, flag, inp, f, now) ==
    CASE tool = "strict" -> StrictRuns(flag, inp, f, now)
      [] tool = "loose" -> LooseRuns(flag, inp, f, now)
      [] tool = "tier" -> TierRuns(flag, inp, f, now)
      [] OTHER -> ToolRuns(flag, inp, f, now)

\* _run_cli, lines 74-88, and do_POST, lines 120-122
RunCli(tool) ==
    /\ pc = "run"
    /\ IF CliMissing
       THEN /\ Finish(Fail(500, CliNotFoundMsg))
            /\ UNCHANGED <<fs, clock, in_path, proc, opened, invoked, contract>>
       ELSE LET mode == Mode(req.route)
                relocate == mode = "decompress" /\ ~StartsWith(in_path, OUTPUT_DIR)
                target == Join(OUTPUT_DIR, SafeName(Basename(in_path)))
                f1 == IF relocate
                      THEN CopyFile(fs, in_path, CopyTarget(fs, in_path, target))
                      ELSE fs
                inp == IF relocate THEN target ELSE in_path
                args == <<Flag(mode), inp, <<"-o">>, OUTPUT_DIR>>
            IN  \E t \in Runs(tool, Flag(mode), inp, f1, clock) :
                  /\ in_path' = inp
                  /\ opened' = IF relocate
                               THEN opened \cup {in_path, CopyTarget(fs, in_path, target)}
                               ELSE opened
                  /\ invoked' = Append(invoked, args)
                  /\ proc' = [rc |-> t.rc, stdout |-> t.stdout, stderr |-> t.stderr]
                  /\ fs' = t.fs
                  /\ clock' = clock + 1
                  /\ contract' = HonoursContract(Flag(mode), inp, f1, clock, t)
                  /\ IF t.rc # 0
                     THEN Finish(Fail(500, IF Strip(t.stderr) # <<>>
                                           THEN Strip(t.stderr)
                                           ELSE CompressionFailedMsg))
                     ELSE pc' = "resolve" /\ UNCHANGED resp
    /\ UNCHANGED <<CLI, nreq, req, out_path, crashed, resolved, prev>>

\* _run_cli, lines 89-110
Resolve ==
    /\ pc = "resolve"
    /\ LET mode == Mode(req.route)
           cand == Candidate(mode, in_path, ParseOutput(proc.stdout))
       IN  \E p \in Resolutions(fs, cand) : out_path' = p
    /\ resolved' = TRUE
    /\ pc' = "stream"
    /\ UNCHANGED <<CLI, fs, clock, nreq, req, in_path, proc, resp, crashed,
                   opened, invoked, contract, prev>>

\* do_POST, lines 121-132
Stream ==
    /\ pc = "stream"
    /\ IF out_path = None
       THEN \* os.path.basename(None) raises before anything is sent
            /\ Raise
            /\ UNCHANGED <<resp, opened>>
       ELSE /\ opened' = opened \cup {out_path}
            /\ IF IsFile(fs, out_path)
               THEN /\ Finish([status |-> 200, text |-> <<>>,
                               filename |-> Basename(out_path),
                               body |-> fs[out_path].data])
                    /\ UNCHANGED crashed
               ELSE \* the status line and the headers are sent, then open() raises
                    /\ resp' = [status |-> 200, text |-> <<>>,
                                filename |-> Basename(out_path), body |-> <<>>]
                    /\ Raise
    /\ UNCHANGED <<CLI, fs, clock, nreq, req, in_path, out_path, proc,
                   invoked, resolved, contract, prev>>

Next ==
    \/ Arrive(JobNames, MaxRequests)
    \/ Route
    \/ HandleUpload
    \/ RunCli("any")
    \/ Resolve
    \/ Stream

\* requests with any tool
Spec == Init /\ [][Next]_vars

NextSeq ==
    \/ Arrive(SeqNames, MaxSequence)
    \/ Route
    \/ HandleUpload
    \/ RunCli("strict")
    \/ Resolve
    \/ Stream

\* sequences of requests with a tool that keeps to the contract
SpecSeq == Init /\ [][NextSeq]_vars

NextShare ==
    \/ Arrive(ShareNames, MaxSequence)
    \/ Route
    \/ HandleUpload
    \/ RunCli("loose")
    \/ Resolve
    \/ Stream

\* sequences of requests with a tool that may exit 0 having done nothing
SpecShare == Init /\ [][NextShare]_vars

NextTier ==
    \/ Arrive(TierNames, MaxRequests)
    \/ Route
    \/ HandleUpload
    \/ RunCli("tier")
    \/ Resolve
    \/ Stream

\* requests with a tool that names its output file by a rule of its own
SpecTier == Init /\ [][NextTier]_vars

InitUpload == Init /\ ~CLI

NextUpload ==
    \/ Arrive(AllNames, MaxRequests)
    \/ Route
    \/ HandleUpload
    \/ RunCli("any")

\* uploads of every file name to a server that found no tool at startup
SpecUpload == InitUpload /\ [][NextUpload]_vars

(***************************************************************************)
(* Vocabulary of the properties.  After Resolve (pc = "stream") out_path   *)
(* is the path _run_cli returned and proc is the tool run it resolved.     *)
(***************************************************************************)
Returned == pc = "stream"
JobMode == Mode(req.route)

\* the indexes of the stdout lines that begin with 'Output:'
OutputLines == {i \in 1..Len(proc.stdout) : StartsWith(proc.stdout[i], Marker)}

\* the path line i names: what follows 'Output:', trimmed
NamedBy(i) == Strip(SubSeq(proc.stdout[i], Len(Marker) + 1, Len(proc.stdout[i])))

FirstOutputLine == CHOOSE i \in OutputLines : \A j \in OutputLines : i <= j

\* <outbound>/<input base name>.comp
SuffixedPath == Join(OUTPUT_DIR, Basename(in_path) \o Suffix)

\* <outbound>/<input base name without .comp>, for a base name that ends in it
StrippedPath ==
    Join(OUTPUT_DIR, SubSeq(Basename(in_path), 1, Len(Basename(in_path)) - Len(Suffix)))

(***************************************************************************)
(* C1 (as stated): in a compress job that exits 0, a stdout line beginning *)
(* with 'Output:' that names an existing file is the path _run_cli         *)
(* returns, whatever the other lines are.  Refuted: an earlier 'Output:'   *)
(* line wins.                                                              *)
(***************************************************************************)
C1_AnyOutputLineReturned ==
    (Returned /\ JobMode = "compress") =>
        \A i \in OutputLines : IsFile(fs, NamedBy(i)) => out_path = NamedBy(i)

(***************************************************************************)
(* C1 (amended): in a compress job that exits 0, if the FIRST stdout line  *)
(* beginning with 'Output:' names an existing file, _run_cli returns       *)
(* exactly that path, whatever the other lines and the other files of the  *)
(* outbound area are.                                                      *)
(***************************************************************************)
C1_FirstOutputLineReturned ==
    (Returned /\ JobMode = "compress" /\ OutputLines # {}) =>
        (IsFile(fs, NamedBy(FirstOutputLine)) => out_path = NamedBy(FirstOutputLine))

\* a noise line first, then an 'Output:' line naming an old file, while the
\* naming guess exists too and is newer: the declared file is returned
C1_Witness ==
    /\ Returned /\ JobMode = "compress"
    /\ OutputLines = {2}
    /\ IsFile(fs, NamedBy(2))
    /\ IsFile(fs, SuffixedPath)
    /\ NamedBy(2) # SuffixedPath
    /\ fs[SuffixedPath].mtime > fs[NamedBy(2)].mtime
    /\ out_path = NamedBy(2)

(***************************************************************************)
(* C2 (as stated): in every job, compress or decompress, that exits 0 with *)
(* no 'Output:' line, if <outbound>/<input base name>.comp exists then     *)
(* _run_cli returns it.  Refuted by a decompress job.                      *)
(***************************************************************************)
C2_SuffixedReturnedInEveryMode ==
    (Returned /\ OutputLines = {} /\ IsFile(fs, SuffixedPath)) => out_path = SuffixedPath

(***************************************************************************)
(* C2 (amended): in every COMPRESS job that exits 0 with no 'Output:'      *)
(* line, if <outbound>/<input base name>.comp exists then _run_cli returns *)
(* it.                                                                     *)
(***************************************************************************)
C2_SuffixedReturnedInCompress ==
    (Returned /\ JobMode = "compress" /\ OutputLines = {} /\ Exists(fs, SuffixedPath))
        => out_path = SuffixedPath

\* the guess is returned although an other regular file is there
C2_Witness ==
    /\ Returned /\ JobMode = "compress"
    /\ OutputLines = {}
    /\ IsFile(fs, SuffixedPath)
    /\ out_path = SuffixedPath
    /\ \E q \in RegularFiles(fs) : q # SuffixedPath

\* the declared path (the first 'Output:' line) is absent or does not exist
DeclaredMissing == OutputLines = {} \/ ~Exists(fs, NamedBy(FirstOutputLine))

\* the naming-convention guess is absent or does not exist
GuessMissing ==
    IF JobMode = "compress" THEN ~Exists(fs, SuffixedPath)
    ELSE EndsWith(Basename(in_path), Suffix) => ~Exists(fs, StrippedPath)

\* out_path is a regular file of the outbound area, as new as any other
ReturnedNewest ==
    /\ out_path \in RegularFiles(fs)
    /\ \A q \in RegularFiles(fs) : fs[q].mtime <= fs[out_path].mtime

(***************************************************************************)
(* C3 (as stated): in a job that exits 0 where neither the declared path   *)
(* nor the naming guess exists, if the outbound area is non-empty then     *)
(* _run_cli returns a regular file of it whose modification time is >=     *)
(* that of every other regular file there.  Refuted: an outbound area that *)
(* holds only a directory.                                                 *)
(***************************************************************************)
C3_NewestWhenNonEmpty ==
    (Returned /\ DeclaredMissing /\ GuessMissing /\ ListDir(fs, OUTPUT_DIR) # {})
        => ReturnedNewest

(***************************************************************************)
(* C3 (amended): in a job that exits 0 where neither the declared path nor *)
(* the naming guess exists, if the outbound area holds AT LEAST ONE        *)
(* REGULAR FILE then _run_cli returns a regular file of it whose           *)
(* modification time is >= that of every other regular file there.         *)
(***************************************************************************)
C3_NewestWhenRegularFile ==
    (Returned /\ DeclaredMissing /\ GuessMissing /\ RegularFiles(fs) # {})
        => ReturnedNewest

\* two regular files with the same newest time and an older one: one of the
\* newest is returned
C3_Witness ==
    /\ Returned /\ DeclaredMissing /\ GuessMissing
    /\ ReturnedNewest
    /\ \E q \in RegularFiles(fs) : fs[q].mtime < fs[out_path].mtime
    /\ OutputLines # {}

(***************************************************************************)
(* C4 (as stated): in a job that exits 0, if no tier yields an existing    *)
(* file and the outbound area holds no regular file, the request ends with *)
(* a 5xx error response and no 200 status line is sent.  Refuted: the      *)
(* server sends 200.                                                       *)
(***************************************************************************)
C4_OutputNotFoundIs5xx ==
    (pc = "done" /\ resolved /\ DeclaredMissing /\ GuessMissing /\ RegularFiles(fs) = {})
        => (resp.status \in 500..599 /\ resp.text # <<>>)

(***************************************************************************)
(* C5 (as stated): every path the gateway opens for reading or writing     *)
(* lies inside the inbound or the outbound directory.  Refuted: the path   *)
(* of the tool's 'Output:' line is opened as it is.                        *)
(***************************************************************************)
InsideWorkingDirs(p) ==
    \/ StartsWith(p, Join(UPLOAD_DIR, <<>>))
    \/ StartsWith(p, Join(OUTPUT_DIR, <<>>))

C5_OpenedPathsInside == \A p \in opened : InsideWorkingDirs(p)

(***************************************************************************)
(* C6: for every client-supplied file name, the sanitized name under which *)
(* _handle_upload opens the inbound file contains no '..' and no '/'.      *)
(***************************************************************************)
HasDotDot(n) == \E i \in 1..(Len(n) - 1) : n[i] = "." /\ n[i + 1] = "."
HasSlash(n) == \E i \in 1..Len(n) : n[i] = "/"

\* the names under which the current request opened files of the inbound area
UploadNames ==
    {SubSeq(p, Len(UPLOAD_DIR) + 2, Len(p)) :
        p \in {q \in opened : StartsWith(q, Join(UPLOAD_DIR, <<>>))}}

C6_SanitizedNameClean == \A n \in UploadNames : ~HasDotDot(n) /\ ~HasSlash(n)

\* a file name with a separator and a parent-traversal sequence was stored
C6_Witness ==
    /\ pc = "run"
    /\ HasDotDot(req.form.filename) /\ HasSlash(req.form.filename)
    /\ UploadNames # {}
    /\ in_path \in DOMAIN fs

(***************************************************************************)
(* C7: whenever the child process exits with a non-zero code, the request  *)
(* ends with a 500 response whose body is the stderr text without its      *)
(* leading and trailing whitespace, or the generic phrase when nothing is  *)
(* left; the output is not resolved and no file is streamed.               *)
(***************************************************************************)
\* r is s without its leading and trailing whitespace
TrimOf(r, s) ==
    \E i \in 1..(Len(s) + 1), j \in 0..Len(s) :
        /\ r = SubSeq(s, i, j)
        /\ \A k \in 1..(i - 1) : s[k] \in Whitespace
        /\ \A k \in (j + 1)..Len(s) : s[k] \in Whitespace
        /\ r # <<>> => (r[1] \notin Whitespace /\ r[Len(r)] \notin Whitespace)

ToolFailed == pc = "done" /\ proc.rc \notin {0, -1}

C7_ToolFailureIs500 ==
    ToolFailed =>
        /\ resp.status = 500
        /\ IF TrimOf(<<>>, proc.stderr)
           THEN resp.text = CompressionFailedMsg
           ELSE TrimOf(resp.text, proc.stderr)
        /\ resp.body = <<>> /\ resp.filename = <<>>
        /\ ~resolved /\ out_path = None
        /\ ~crashed

\* stderr with whitespace on both sides of its text
C7_Witness ==
    /\ ToolFailed
    /\ proc.stderr = <<" ", "b">>
    /\ resp.text = <<"b">>

(***************************************************************************)
(* C8 (as stated): when no executable was located at startup, any POST to  *)
(* /compress or /decompress, whatever its body and headers, yields a 500   *)
(* response with the tool-unavailable message and the child process is     *)
(* never invoked.  Refuted: a request that is no valid upload gets 400.    *)
(* (Requests whose handler ends with an exception are left aside here.)    *)
(***************************************************************************)
JobRoute == req.route \in {"/compress", "/decompress"}

C8_AnyPostIs500 ==
    (~CLI /\ pc = "done" /\ JobRoute /\ ~crashed) =>
        (resp = Fail(500, CliNotFoundMsg) /\ invoked = <<>>)

(***************************************************************************)
(* C8 (amended): when no executable was located at startup, any POST to    *)
(* /compress or /decompress WHOSE UPLOAD WAS ACCEPTED AND STORED yields a  *)
(* 500 response with the tool-unavailable message; the child process is    *)
(* never invoked, for any request; and the handler returns normally, so    *)
(* the server answers the requests that follow.                            *)
(***************************************************************************)
UploadStored == in_path # None

C8_StoredUploadIs500 ==
    ~CLI =>
        /\ invoked = <<>>
        /\ proc = NoProc
        /\ (pc = "done" /\ JobRoute /\ UploadStored) =>
              (resp = Fail(500, CliNotFoundMsg) /\ ~crashed)

\* a second request is answered after a first one got the 500
C8_Witness ==
    /\ ~CLI /\ pc = "done" /\ JobRoute /\ UploadStored
    /\ nreq = 2
    /\ prev.status = 500 /\ prev.safe # None
    /\ resp = Fail(500, CliNotFoundMsg)

(***************************************************************************)
(* C9 (as stated): every POST to /compress or /decompress whose body is    *)
(* not a multipart file upload (Content-Type absent, or another media      *)
(* type, or multipart without a boundary) ends with a 400 response that    *)
(* carries the invalid-content-type message, with no file written and no   *)
(* child process invoked.  Refuted: a missing header, and a missing        *)
(* boundary, end the handler with an exception and no response.            *)
(***************************************************************************)
C9_NotMultipartIs400 ==
    (pc = "done" /\ JobRoute /\ req.header # "multipart/form-data; boundary=x") =>
        /\ resp = Fail(400, InvalidContentTypeMsg)
        /\ UploadNames = {}
        /\ invoked = <<>>

(***************************************************************************)
(* C10 (as stated): with a tool that honours the child-process contract,   *)
(* uploading a file to /compress and then posting the returned body under  *)
(* the returned file name to /decompress yields the original content, for  *)
(* every content and every accepted file name.  Refuted: a file name that  *)
(* ends in a dot.                                                          *)
(***************************************************************************)
\* the current request posts what the previous one, a compress, returned
Replay ==
    /\ prev.route = "/compress" /\ prev.status = 200 /\ prev.contract
    /\ req.route = "/decompress"
    /\ req.header = "multipart/form-data; boundary=x"
    /\ req.form = [hasfile |-> TRUE, filename |-> prev.rfilename, body |-> prev.rbody]

C10_RoundTrip ==
    (pc = "done" /\ Replay /\ contract) => (resp.status = 200 /\ resp.body = prev.body)

\* the path the tool declared: what the first 'Output:' line names
Declared == IF OutputLines = {} THEN None ELSE NamedBy(FirstOutputLine)

\* the naming-convention candidate of the job, None when there is none
Guess ==
    IF JobMode = "compress" THEN SuffixedPath
    ELSE IF EndsWith(Basename(in_path), Suffix) THEN StrippedPath ELSE None

\* the newest regular file of the outbound area is returned, if there is one
NewestIfAny == RegularFiles(fs) # {} => ReturnedNewest

(***************************************************************************)
(* C11 (as stated): the result of the resolver is the declared 'Output:'   *)
(* path if it exists, otherwise the naming-convention candidate if it      *)
(* exists, otherwise the newest regular file of the outbound area.         *)
(* (A candidate that is a directory is left aside here.)  Refuted: a       *)
(* declared path that does not exist sends the resolver to the newest file *)
(* although the naming-convention file exists.                             *)
(***************************************************************************)
C11_FirstExistingTierWins ==
    Returned =>
        IF ~Falsy(Declared) /\ Exists(fs, Declared) THEN out_path = Declared
        ELSE IF Guess # None /\ IsFile(fs, Guess) THEN out_path = Guess
        ELSE (Guess = None \/ ~Exists(fs, Guess)) => NewestIfAny

(***************************************************************************)
(* C11 (amended): the result of the resolver is the declared 'Output:'     *)
(* path if one is declared and exists; the naming-convention candidate is  *)
(* derived ONLY WHEN NO PATH IS DECLARED and is the result if it exists;   *)
(* in every other case the result is the newest regular file of the        *)
(* outbound area, if there is one.                                         *)
(***************************************************************************)
C11_GuessOnlyWhenNothingDeclared ==
    Returned =>
        IF ~Falsy(Declared)
        THEN IF Exists(fs, Declared) THEN out_path = Declared ELSE NewestIfAny
        ELSE IF Guess # None /\ Exists(fs, Guess) THEN out_path = Guess ELSE NewestIfAny

\* the declared path does not exist, the naming-convention file does, and a
\* newer file is returned in its place
C11_Witness ==
    /\ Returned
    /\ ~Falsy(Declared) /\ ~Exists(fs, Declared)
    /\ Guess # None /\ IsFile(fs, Guess)
    /\ ReturnedNewest
    /\ out_path # Guess

\* <outbound>/<input base name>, the base name as it is
UnmodifiedPath == Join(OUTPUT_DIR, Basename(in_path))

(***************************************************************************)
(* C12 (as stated): in a decompress job with no 'Output:' line, the        *)
(* candidate is the input base name without '.comp' when the base name     *)
(* ends in it, and the outbound path with the base name unmodified when it *)
(* does not; a candidate that is an existing file is returned, and the     *)
(* newest-file scan is used only when the candidate does not exist.        *)
(* Refuted: a base name without the suffix gives no candidate at all, and  *)
(* a newer file of the outbound area is returned in place of               *)
(* <outbound>/<base name>.                                                 *)
(***************************************************************************)
C12_UnsuffixedNameIsCandidate ==
    (Returned /\ JobMode = "decompress" /\ OutputLines = {}) =>
        IF EndsWith(Basename(in_path), Suffix)
        THEN IsFile(fs, StrippedPath) => out_path = StrippedPath
        ELSE IF IsFile(fs, UnmodifiedPath) THEN out_path = UnmodifiedPath
             ELSE ~Exists(fs, UnmodifiedPath) => NewestIfAny

(***************************************************************************)
(* C13 (as stated): a candidate of tier 1 or tier 2 is accepted only if it *)
(* is a regular file, so a path _run_cli returns that exists on disk is    *)
(* always a regular file.  Refuted: a candidate that names a directory is  *)
(* returned.                                                               *)
(***************************************************************************)
C13_ReturnedIsRegularFile ==
    (Returned /\ out_path # None /\ Exists(fs, out_path)) => IsFile(fs, out_path)

\* the argument list of the child process the current request ran
Args == invoked[1]

(***************************************************************************)
(* C14 (as stated): in every invocation the output-directory argument is   *)
(* the outbound area; in every decompress invocation the input-path        *)
(* argument is <outbound>/<sanitized name of the upload>, a copy of the    *)
(* uploaded file with identical bytes.  Refuted: when that path is a       *)
(* directory the copy is made inside it and the job is given the           *)
(* directory.                                                              *)
(***************************************************************************)
C14_DecompressInputRelocated ==
    invoked # <<>> =>
        /\ Args[4] = OUTPUT_DIR
        /\ Args[1] = "-d" =>
              /\ StartsWith(Args[2], Join(OUTPUT_DIR, <<>>))
              /\ Args[2] = Join(OUTPUT_DIR, Sanitize(req.form.filename))
              /\ IsFile(fs, Args[2])
              /\ fs[Args[2]].data = req.form.body

\* the inbound file of the current request holds the uploaded bytes
UploadWritten ==
    LET path == Join(UPLOAD_DIR, Sanitize(req.form.filename))
    IN  IsFile(fs, path) /\ fs[path].data = req.form.body

\* what the stages of the current request have done so far
StagesInOrder ==
    /\ Len(invoked) <= 1
    /\ invoked # <<>> => UploadWritten
    /\ (proc # NoProc) = (invoked # <<>>)
    /\ resolved => (invoked # <<>> /\ proc.rc = 0)
    /\ resp.status = 200 => resolved
    /\ resp.body # <<>> => resp.status = 200

\* the request has ended with an error response or an exception
Ended == resp.status >= 400 \/ crashed

(***************************************************************************)
(* C15: within one request the stages run in the order upload, invoke,     *)
(* resolve, stream: the child process is invoked at most once, and only    *)
(* when the upload has been written in full; the output is resolved only   *)
(* after an invocation that exited with code 0; the 200 status and the     *)
(* file bytes are sent only after the resolution; and once an error        *)
(* response has been sent (or the handler has ended with an exception)     *)
(* nothing more is done for that request: the next step, if any, is the    *)
(* arrival of the next request.                                            *)
(***************************************************************************)
C15_StagesInOrder ==
    [][/\ StagesInOrder'
       /\ Ended => nreq' = nreq + 1]_vars

\* a request that went through the four stages
C15_Witness ==
    /\ pc = "done" /\ ~crashed
    /\ UploadWritten
    /\ Len(invoked) = 1 /\ proc.rc = 0
    /\ resolved
    /\ resp.status = 200 /\ resp.body # <<>>

\* a job is running: its upload is stored and its response is not finished
JobRunning == pc \in {"run", "resolve", "stream"}

\* the request ended with the 200 response and the bytes of a file
Succeeded == pc = "done" /\ resp.status = 200 /\ ~crashed

\* the inbound file of the current request
UploadPath == Join(UPLOAD_DIR, Sanitize(req.form.filename))

(***************************************************************************)
(* C16 (as stated): two jobs can run concurrently, so that one job's       *)
(* response can carry the file the other job produces: while a job is      *)
(* running, the server can take up the next request.  Refuted: the server  *)
(* takes up a request only when the handler of the previous one has        *)
(* returned.                                                               *)
(***************************************************************************)
C16_JobsRunConcurrently ==
    (JobRunning /\ nreq < MaxSequence) => ENABLED Arrive(ShareNames, MaxSequence)

(***************************************************************************)
(* C16 (amended): requests are handled one at a time, so no request is     *)
(* taken up while a job is running; the inbound file holds the bytes of    *)
(* the last upload written under its name; and a successful response       *)
(* carries the bytes of the file the resolver returned, whichever job      *)
(* produced it (the witness is a response that carries the file an EARLIER *)
(* job produced, chosen by the newest-file scan).                          *)
(***************************************************************************)
C16_SharedByJobsInTurn ==
    /\ JobRunning => ~ENABLED Arrive(ShareNames, MaxSequence)
    /\ UploadStored => UploadWritten
    /\ Succeeded => (IsFile(fs, out_path) /\ resp.body = fs[out_path].data)

\* the second job's tool wrote nothing, and the newest-file scan returned
\* the file the first job produced and was answered with
C16_Witness ==
    /\ Succeeded /\ nreq = 2
    /\ prev.status = 200 /\ prev.filename # req.form.filename
    /\ DeclaredMissing /\ GuessMissing
    /\ fs[out_path].mtime < fs[UploadPath].mtime
    /\ resp.body = prev.rbody /\ resp.filename = prev.rfilename

\* the request passed the validation of _handle_upload: multipart, 'file'
\* field present, client file name not empty
Validated ==
    /\ JobRoute
    /\ req.header = "multipart/form-data; boundary=x"
    /\ req.form.hasfile
    /\ req.form.filename # <<>>

(***************************************************************************)
(* C17 (as stated): for every upload that passes the validation, the       *)
(* sanitized name is not empty and the path opened for writing is a strict *)
(* child of the inbound directory, never the inbound directory itself.     *)
(* Refuted: the client file name '.' names the inbound directory itself,  *)
(* and '..' is sanitized to the empty name.                                *)
(***************************************************************************)
C17_StoredPathIsChild ==
    (Validated /\ pc \in {"run", "done"}) =>
        /\ Sanitize(req.form.filename) # <<>>
        /\ UploadNames # {}
        /\ \A n \in UploadNames : n # <<>> /\ Join(UPLOAD_DIR, n) \notin WorkDirs

(***************************************************************************)
(* C18 (as stated): requests are handled one at a time, so no request is   *)
(* taken up while another is being handled, and at the moment the child    *)
(* process is invoked the input file it is given holds exactly the bytes   *)
(* uploaded by the same request.  Refuted: in a decompress job whose       *)
(* relocation target is a directory (C14) the input given is that          *)
(* directory, not a file with the uploaded bytes.                          *)
(***************************************************************************)
C18_InputHoldsOwnBytes ==
    /\ (pc \notin {"idle", "done"}) => ~ENABLED Arrive(TierNames, MaxRequests)
    /\ invoked # <<>> => (IsFile(fs, Args[2]) /\ fs[Args[2]].data = req.form.body)

====
